---- MODULE Spec2Model ----
(***************************************************************************)
(* Model of kmeans.Cluster (src/kmeans.go).                                *)
(*                                                                         *)
(* One behaviour is one call of Cluster.  Init draws the arguments; the    *)
(* actions are the successive blocks of the function body.                 *)
(*                                                                         *)
(* Representation.                                                         *)
(*  - dataset is a function on 0..n-1 (Go indices); an observation is the  *)
(*    tuple its Coordinates() returns.  Clusters hold observation INDICES  *)
(*    (index i stands for dataset[i]), so duplication or omission of an    *)
(*    observation is visible even when two observations are equal.         *)
(*  - a float64 vector is [c |-> tuple of integers, den |-> positive       *)
(*    integer], standing for the coordinates c[d] / den.  The arithmetic   *)
(*    is exact in range (rounding is not modelled); a sum of squares that  *)
(*    exceeds MaxFloat64 rounds to +Inf as IEEE-754 addition and           *)
(*    multiplication do.                                                   *)
(*  - a distance is kept as its square, [inf, n, d] standing for           *)
(*    sqrt(n / d), or +Inf: math.Sqrt is monotone and Sqrt(+Inf) = +Inf,   *)
(*    so every comparison of the code is decided on the squares.           *)
(***************************************************************************)
EXTENDS Integers, Sequences, FiniteSets, TLC

\* ---------------------------------------------------------------- bounds
MaxN == 3           \* longest dataset
MaxIter == 3        \* largest iterationThreshold
Big == 100          \* a coordinate whose square is beyond the float range
MaxFloat64 == 1000  \* largest finite float of the model (math.MaxFloat64, scaled)

Coord == {0, 1, 3, Big}

\* Coordinates() of the observations: 1-dimensional, 2-dimensional, and the
\* empty vector.
Obs == {<<c>> : c \in Coord} \cup {<<a, b>> : a, b \in {0, 1}} \cup {<< >>}

\* deltaThreshold values, as fractions n / d
Deltas == {[n |-> 0, d |-> 1], [n |-> 1, d |-> 2], [n |-> 1, d |-> 1]}

VARIABLES
    dataset,            \* argument: [0..n-1 -> Obs]
    k,                  \* argument
    deltaThreshold,     \* argument: [n, d]
    iterationThreshold, \* argument
    rng,                \* argument: TRUE when rng # nil
    pc,                 \* position in Cluster
    err,                \* returned error ("" is nil)
    clusters,           \* returned [][]T: [0..m-1 -> Seq(index)]; << >> is nil
    indices,            \* line 78: the shuffled indices (<< >> before the shuffle)
    centroids,          \* [0..k-1 -> vector]
    assignment,         \* [0..n-1 -> Int]
    iters,              \* number of loop iterations entered
    maxMovement,        \* line 142: maxMovement of the last update step
    panicked            \* "" or the panic raised

vars == <<dataset, k, deltaThreshold, iterationThreshold, rng, pc, err, clusters,
          indices, centroids, assignment, iters, maxMovement, panicked>>

args == <<dataset, k, deltaThreshold, iterationThreshold, rng>>

n == Cardinality(DOMAIN dataset)
Nil == << >>
Zero == [inf |-> FALSE, n |-> 0, d |-> 1]
PosInf == [inf |-> TRUE, n |-> 0, d |-> 1]

\* ------------------------------------------------------------ float64

\* a < b on distances (lines 101, 145)
DistLess(a, b) ==
    IF a.inf THEN FALSE
    ELSE IF b.inf THEN TRUE
    ELSE a.n * b.d < b.n * a.d

\* BelowThreshold with <= for <
BelowOrAtThreshold(m, delta) ==
    IF m.inf THEN FALSE
    ELSE m.n * delta.d * delta.d <= delta.n * delta.n * m.d

\* maxMovement < deltaThreshold (line 154); reached with deltaThreshold > 0 only
BelowThreshold(m, delta) ==
    IF m.inf THEN FALSE
    ELSE m.n * delta.d * delta.d < delta.n * delta.n * m.d

\* the loop of lines 21-24: sum of diff * diff over the first i coordinates,
\* as a numerator over (a.den * b.den)^2
RECURSIVE SumSq(_, _, _)
SumSq(a, b, i) ==
    IF i = 0 THEN 0
    ELSE LET diff == a.c[i] * b.den - b.c[i] * a.den
         IN  SumSq(a, b, i - 1) + diff * diff

DimensionsMismatch(a, b) == Len(a.c) # Len(b.c)

euclideanDistance(a, b) ==
    LET num == SumSq(a, b, Len(a.c))
        den == (a.den * b.den) * (a.den * b.den)
    IN  IF num > MaxFloat64 * den THEN PosInf
        ELSE [inf |-> FALSE, n |-> num, d |-> den]

\* Observation.Coordinates() as a float64 vector
Coordinates(i) == [c |-> dataset[i], den |-> 1]

\* ------------------------------------------------------------ validation

dim == Len(dataset[0])

InconsistentDim == \E i \in DOMAIN dataset : Len(dataset[i]) # dim

\* Validate with the threshold checked before the cluster count
ValidateDeltaFirst ==
    IF n = 0 THEN "dataset is empty"
    ELSE IF deltaThreshold.n <= 0 THEN "invalid delta threshold"
    ELSE IF k <= 0 \/ k > n THEN "invalid number of clusters"
    ELSE IF iterationThreshold <= 0 THEN "invalid iteration threshold"
    ELSE IF ~rng THEN "random number generator is nil"
    ELSE IF InconsistentDim THEN "inconsistent dimensions"
    ELSE ""

\* lines 30-61: the error returned, "" when every check passes
Validate ==
    IF n = 0 THEN "dataset is empty"
    ELSE IF k <= 0 \/ k > n THEN "invalid number of clusters"
    ELSE IF deltaThreshold.n <= 0 THEN "invalid delta threshold"
    ELSE IF iterationThreshold <= 0 THEN "invalid iteration threshold"
    ELSE IF ~rng THEN "random number generator is nil"
    ELSE IF InconsistentDim THEN "inconsistent dimensions"
    ELSE ""

Init ==
    /\ \E m \in 0..MaxN : dataset \in [0..(m - 1) -> Obs]
    /\ k \in 0..(MaxN + 1)
    /\ deltaThreshold \in Deltas
    /\ iterationThreshold \in 0..MaxIter
    /\ rng \in BOOLEAN
    /\ pc = "validate"
    /\ err = ""
    /\ clusters = Nil
    /\ indices = << >>
    /\ centroids = << >>
    /\ assignment = << >>
    /\ iters = 0
    /\ maxMovement = Zero
    /\ panicked = ""

\* lines 30-61
ValidateStep ==
    /\ pc = "validate"
    /\ err' = Validate
    /\ pc' = IF Validate = "" THEN "shortcut" ELSE "returned"
    /\ UNCHANGED <<args, clusters, indices, centroids, assignment, iters,
                   maxMovement, panicked>>

\* ------------------------------------------------- degenerate cases

\* SingletonClusters filled from the last observation backwards
SingletonClustersReversed == [i \in 0..(k - 1) |-> <<k - 1 - i>>]

\* lines 64-70: one singleton per observation, cluster i holding observation i
SingletonClusters == [i \in 0..(k - 1) |-> <<i>>]

\* line 74: [][]T{dataset}
WholeDataset == [j \in {0} |-> [i \in 1..n |-> i - 1]]

\* lines 63-75
ShortcutStep ==
    /\ pc = "shortcut"
    /\ IF k = n
         THEN clusters' = SingletonClusters /\ pc' = "returned"
         ELSE IF k = 1
                THEN clusters' = WholeDataset /\ pc' = "returned"
                ELSE clusters' = clusters /\ pc' = "init"
    /\ UNCHANGED <<args, err, indices, centroids, assignment, iters,
                   maxMovement, panicked>>

\* ---------------------------------------------------- initialisation

\* the outcomes of rng.Shuffle on the identity (lines 78-84): the permutations
Shuffles == {p \in [0..(n - 1) -> 0..(n - 1)] :
                \A a, b \in 0..(n - 1) : a # b => p[a] # p[b]}

\* lines 85-88
SeedCentroids(p) == [j \in 0..(k - 1) |-> Coordinates(p[j])]

\* LoopContinues running one iteration too many
LoopContinuesOffByOne(i) == i <= iterationThreshold

\* line 94, for range iterationThreshold: another iteration is entered after
\* i of them
LoopContinues(i) == i < iterationThreshold

\* lines 77-94
InitStep ==
    /\ pc = "init"
    /\ \E p \in Shuffles :
          /\ indices' = p
          /\ centroids' = SeedCentroids(p)
    /\ assignment' = [i \in 0..(n - 1) |-> 0]
    /\ pc' = IF LoopContinues(0) THEN "assign" ELSE "materialize"
    /\ UNCHANGED <<args, err, clusters, iters, maxMovement, panicked>>

\* ------------------------------------------------------ assignment step

\* lines 97-105: the scan of the centroids from j on, carrying minDist, minIndex
RECURSIVE NearestFrom(_, _, _, _)
NearestFrom(i, j, minDist, minIndex) ==
    IF j = k THEN minIndex
    ELSE LET dist == euclideanDistance(Coordinates(i), centroids[j])
         IN  IF DistLess(dist, minDist)
               THEN NearestFrom(i, j + 1, dist, j)
               ELSE NearestFrom(i, j + 1, minDist, minIndex)

\* lines 97-106: minDist := +Inf, minIndex := -1
Nearest(i) == NearestFrom(i, 0, PosInf, -1)

\* a call of line 100 panics
AssignMismatch ==
    \E i \in 0..(n - 1), j \in 0..(k - 1) :
        DimensionsMismatch(Coordinates(i), centroids[j])

\* lines 96-107, in the iteration just entered
AssignStep ==
    /\ pc = "assign"
    /\ iters' = iters + 1
    /\ IF AssignMismatch
         THEN /\ panicked' = "dimensions mismatch"
              /\ pc' = "panicked"
              /\ assignment' = assignment
         ELSE /\ assignment' = [i \in 0..(n - 1) |-> Nearest(i)]
              /\ pc' = "update"
              /\ panicked' = panicked
    /\ UNCHANGED <<args, err, clusters, indices, centroids, maxMovement>>

\* ---------------------------------------------------------- update step

\* lines 121-127: sums[j] and counts[j] after the observations 0..i-1
RECURSIVE SumsUpTo(_, _)
SumsUpTo(j, i) ==
    IF i = 0 THEN [d \in 1..dim |-> 0]
    ELSE IF assignment[i - 1] = j
           THEN [d \in 1..dim |-> SumsUpTo(j, i - 1)[d] + dataset[i - 1][d]]
           ELSE SumsUpTo(j, i - 1)

RECURSIVE CountsUpTo(_, _)
CountsUpTo(j, i) ==
    IF i = 0 THEN 0
    ELSE CountsUpTo(j, i - 1) + (IF assignment[i - 1] = j THEN 1 ELSE 0)

\* lines 121-127 index sums and counts by assignment[i]
IndexOutOfRange == \E i \in 0..(n - 1) : assignment[i] \notin 0..(k - 1)

\* NewCentroid without the else branch of line 135: an empty cluster's
\* centroid is left at the zero vector of line 112
NewCentroidZeroWhenEmpty(j) ==
    IF CountsUpTo(j, n) > 0
      THEN [c |-> SumsUpTo(j, n), den |-> CountsUpTo(j, n)]
      ELSE [c |-> [d \in 1..dim |-> 0], den |-> 1]

\* lines 130-139
NewCentroid(j) ==
    IF CountsUpTo(j, n) > 0
      THEN [c |-> SumsUpTo(j, n), den |-> CountsUpTo(j, n)]
      ELSE centroids[j]

NewCentroids == [j \in 0..(k - 1) |-> NewCentroid(j)]

\* a call of line 144 panics
MovementMismatch ==
    \E j \in 0..(k - 1) : DimensionsMismatch(centroids[j], NewCentroid(j))

\* lines 142-148: maxMovement after the centroids 0..j-1
RECURSIVE MaxMovementUpTo(_)
MaxMovementUpTo(j) ==
    IF j = 0 THEN Zero
    ELSE LET movement == euclideanDistance(centroids[j - 1], NewCentroid(j - 1))
             prev == MaxMovementUpTo(j - 1)
         IN  IF DistLess(prev, movement) THEN movement ELSE prev

\* lines 154-156 (break), else the loop condition of line 94
AfterUpdate(m) ==
    IF BelowThreshold(m, deltaThreshold) THEN "materialize"
    ELSE IF LoopContinues(iters) THEN "assign"
    ELSE "materialize"

\* lines 109-157
UpdateStep ==
    /\ pc = "update"
    /\ IF IndexOutOfRange
         THEN /\ panicked' = "index out of range"
              /\ pc' = "panicked"
              /\ UNCHANGED <<centroids, maxMovement>>
         ELSE IF MovementMismatch
                THEN /\ panicked' = "dimensions mismatch"
                     /\ pc' = "panicked"
                     /\ UNCHANGED <<centroids, maxMovement>>
                ELSE /\ maxMovement' = MaxMovementUpTo(k)
                     /\ centroids' = NewCentroids
                     /\ pc' = AfterUpdate(MaxMovementUpTo(k))
                     /\ panicked' = panicked
    /\ UNCHANGED <<args, err, clusters, indices, assignment, iters>>

\* ------------------------------------------------------ materialization

\* lines 160-164: clusters[j] after the observations 0..i-1
RECURSIVE ClusterUpTo(_, _)
ClusterUpTo(j, i) ==
    IF i = 0 THEN << >>
    ELSE IF assignment[i - 1] = j
           THEN Append(ClusterUpTo(j, i - 1), i - 1)
           ELSE ClusterUpTo(j, i - 1)

FormClusters == [j \in 0..(k - 1) |-> ClusterUpTo(j, n)]

\* lines 159-166
MaterializeStep ==
    /\ pc = "materialize"
    /\ IF IndexOutOfRange
         THEN /\ panicked' = "index out of range"
              /\ pc' = "panicked"
              /\ clusters' = clusters
         ELSE /\ clusters' = FormClusters
              /\ pc' = "returned"
              /\ panicked' = panicked
    /\ UNCHANGED <<args, err, indices, centroids, assignment, iters, maxMovement>>

Next ==
    \/ ValidateStep
    \/ ShortcutStep
    \/ InitStep
    \/ AssignStep
    \/ UpdateStep
    \/ MaterializeStep

Spec == Init /\ [][Next]_vars

\* ------------------------------------------------------------ properties

\* The validation rules as the specification lists them, in priority order.
RuleViolated(r) ==
    CASE r = 1 -> DOMAIN dataset = {}
      [] r = 2 -> k <= 0 \/ k > n
      [] r = 3 -> deltaThreshold.n <= 0
      [] r = 4 -> iterationThreshold <= 0
      [] r = 5 -> rng = FALSE
      [] r = 6 -> \E a, b \in DOMAIN dataset : Len(dataset[a]) # Len(dataset[b])

RuleError(r) ==
    CASE r = 1 -> "dataset is empty"
      [] r = 2 -> "invalid number of clusters"
      [] r = 3 -> "invalid delta threshold"
      [] r = 4 -> "invalid iteration threshold"
      [] r = 5 -> "random number generator is nil"
      [] r = 6 -> "inconsistent dimensions"

ViolatedRules == {r \in 1..6 : RuleViolated(r)}

ValidInput == ViolatedRules = {}

NonDegenerate == ValidInput /\ 1 < k /\ k < n

\* C2: Cluster returns an error, and nil clusters, exactly when some validation
\* rule is violated, and the error is that of the first violated rule in the
\* order empty dataset, cluster count, delta threshold, iteration threshold,
\* rng, dimensions.
C2_ErrorIsFirstViolatedRule ==
    pc # "validate" =>
        /\ (err # "") <=> (ViolatedRules # {})
        /\ err # "" =>
              /\ pc = "returned"
              /\ clusters = Nil
              /\ \E r \in ViolatedRules :
                    /\ \A q \in ViolatedRules : r <= q
                    /\ err = RuleError(r)

\* k = 0 together with deltaThreshold = 0 reports the cluster count.
C2_Witness ==
    /\ pc = "returned"
    /\ n > 0 /\ k = 0 /\ deltaThreshold.n = 0
    /\ err = "invalid number of clusters"

\* C3: for valid inputs, k = n returns n singletons with cluster i holding
\* observation i, and k = 1 returns one cluster holding the whole dataset in
\* order; neither iterates nor shuffles.
C3_DegenerateCases ==
    (pc = "returned" /\ ValidInput /\ (k = n \/ k = 1)) =>
        /\ err = ""
        /\ iters = 0
        /\ indices = << >>
        /\ k = n =>
              /\ DOMAIN clusters = 0..(n - 1)
              /\ \A i \in 0..(n - 1) : clusters[i] = <<i>>
        /\ k = 1 =>
              /\ DOMAIN clusters = {0}
              /\ Len(clusters[0]) = n
              /\ \A q \in 1..n : clusters[0][q] = q - 1

\* k = n with several observations has returned.
C3_Witness ==
    /\ pc = "returned"
    /\ ValidInput
    /\ k = n
    /\ n >= 3

\* The observations a returned cluster holds.
Members(j) == {clusters[j][q] : q \in 1..Len(clusters[j])}

\* The returned clusters are k sequences of observation indices, every index
\* of the dataset is in exactly one of them, at one position, and each cluster
\* is in dataset order.
OrderPreservingPartition ==
    /\ DOMAIN clusters = 0..(k - 1)
    /\ \A i \in 0..(n - 1) : \E j \in 0..(k - 1) :
          /\ i \in Members(j)
          /\ \A j2 \in 0..(k - 1) : i \in Members(j2) => j2 = j
    /\ \A j \in 0..(k - 1) : \A q, r \in 1..Len(clusters[j]) :
          q < r => clusters[j][q] < clusters[j][r]

\* The part of C1 that holds: whenever Cluster returns without error, the
\* clusters are an order-preserving partition of the dataset into k clusters.
PartitionWhenReturned ==
    (pc = "returned" /\ err = "") => OrderPreservingPartition

\* C1: for every input that passes validation, Cluster returns exactly k
\* clusters that form an order-preserving partition of the dataset.  The call
\* has ended (returned or panicked) in the states the formula speaks of.
C1_ReturnsPartition ==
    (ValidInput /\ pc \in {"returned", "panicked"}) =>
        /\ pc = "returned"
        /\ err = ""
        /\ OrderPreservingPartition

\* C4: for every input that passes validation Cluster never fails midway: no
\* panic is raised, and after every assignment step every observation has an
\* assignment index in [0, k).
C4_NeverFailsAfterValidation ==
    ValidInput =>
        /\ pc # "panicked"
        /\ pc = "update" => \A i \in 0..(n - 1) : assignment[i] \in 0..(k - 1)

\* The part of C4 that holds: the panic of euclideanDistance is never raised.
NoDimensionsMismatch == panicked # "dimensions mismatch"

\* x is strictly smaller than y, on distances (with +Inf)
StrictlyCloser(x, y) ==
    \/ ~x.inf /\ y.inf
    \/ ~x.inf /\ ~y.inf /\ x.n * y.d < y.n * x.d

DistanceTo(i, j) == euclideanDistance(Coordinates(i), centroids[j])

\* C8: after every assignment step each observation is assigned to the
\* lowest-index centroid among those at minimum distance: the assignment is a
\* centroid, no centroid is strictly closer, and every earlier centroid is
\* strictly farther.
C8_NearestLowestIndex ==
    pc = "update" =>
        \A i \in 0..(n - 1) :
            /\ assignment[i] \in 0..(k - 1)
            /\ \A j \in 0..(k - 1) :
                  ~StrictlyCloser(DistanceTo(i, j), DistanceTo(i, assignment[i]))
            /\ \A j \in 0..(assignment[i] - 1) :
                  StrictlyCloser(DistanceTo(i, assignment[i]), DistanceTo(i, j))

\* The part of C8 that holds: an observation at finite distance of some
\* centroid is assigned as C8 says; the others are assigned -1.
NearestWhenFinite ==
    pc = "update" =>
        \A i \in 0..(n - 1) :
            IF \A j \in 0..(k - 1) : DistanceTo(i, j).inf
              THEN assignment[i] = -1
              ELSE /\ assignment[i] \in 0..(k - 1)
                   /\ \A j \in 0..(k - 1) :
                         ~StrictlyCloser(DistanceTo(i, j), DistanceTo(i, assignment[i]))
                   /\ \A j \in 0..(assignment[i] - 1) :
                         StrictlyCloser(DistanceTo(i, assignment[i]), DistanceTo(i, j))

\* x is strictly below deltaThreshold, on distances
BelowDelta(x) ==
    /\ ~x.inf
    /\ x.n * deltaThreshold.d * deltaThreshold.d
         < deltaThreshold.n * deltaThreshold.n * x.d

LoopEnded == pc \in {"materialize", "returned", "panicked"}

\* C5: for every valid input with 1 < k < n the loop ends, after at least one
\* and at most iterationThreshold iterations; the clusters returned come
\* after an assignment step.  The loop ends because every pass through its
\* body counts one iteration, nothing else changes the count or re-enters the
\* body, and the count never exceeds iterationThreshold.
C5_LoopBounded ==
    /\ [](NonDegenerate =>
            /\ iters <= iterationThreshold
            /\ pc \in {"update", "materialize", "returned"} => iters >= 1)
    /\ [][pc = "assign" =>
            (iters' = iters + 1 /\ pc' \in {"update", "panicked"})]_vars
    /\ [][pc = "update" =>
            (iters' = iters /\ pc' \in {"assign", "materialize", "panicked"})]_vars
    /\ [][pc = "materialize" =>
            (iters' = iters /\ pc' \in {"returned", "panicked"})]_vars

\* The iteration budget was used up without convergence, and Cluster returned.
C5_Witness ==
    /\ pc = "returned"
    /\ NonDegenerate
    /\ iters = iterationThreshold
    /\ iters >= 2
    /\ ~BelowDelta(maxMovement)

\* The observations centroid j owns
Owners(j) == {i \in 0..(n - 1) : assignment[i] = j}

RECURSIVE CoordSum(_, _)
CoordSum(S, d) ==
    IF S = {} THEN 0
    ELSE LET i == CHOOSE x \in S : TRUE
         IN  dataset[i][d] + CoordSum(S \ {i}, d)

\* c is the coordinate-wise arithmetic mean of the observations in S
IsMean(c, S) ==
    /\ Len(c.c) = dim
    /\ \A d \in 1..dim : c.c[d] * Cardinality(S) = c.den * CoordSum(S, d)

SamePosition(a, b) ==
    /\ Len(a.c) = Len(b.c)
    /\ \A d \in 1..Len(a.c) : a.c[d] * b.den = b.c[d] * a.den

SameDistance(x, y) == ~StrictlyCloser(x, y) /\ ~StrictlyCloser(y, x)

UpdateDone == pc = "update" /\ pc' \in {"assign", "materialize"}

\* C9: in every update step a centroid that owns no observation keeps its
\* position and every other centroid becomes the coordinate-wise mean of the
\* observations it owns; the maximum movement is zero or the movement of a
\* centroid that owns an observation; there are k centroids throughout, and a
\* centroid without observations at the end gives an empty cluster at its index.
C9_UpdateStep ==
    /\ [][UpdateDone =>
            /\ DOMAIN centroids' = 0..(k - 1)
            /\ \A j \in 0..(k - 1) :
                  IF Owners(j) = {}
                    THEN SamePosition(centroids'[j], centroids[j])
                    ELSE IsMean(centroids'[j], Owners(j))
            /\ \A j \in 0..(k - 1) :
                  ~StrictlyCloser(maxMovement',
                                  euclideanDistance(centroids[j], centroids'[j]))
            /\ \/ SameDistance(maxMovement', Zero)
               \/ \E j \in 0..(k - 1) :
                     /\ Owners(j) # {}
                     /\ SameDistance(maxMovement',
                                     euclideanDistance(centroids[j], centroids'[j]))
         ]_vars
    /\ [](pc \in {"assign", "update", "materialize"} => DOMAIN centroids = 0..(k - 1))
    /\ []((pc = "returned" /\ NonDegenerate) =>
            /\ DOMAIN clusters = 0..(k - 1)
            /\ \A j \in 0..(k - 1) : Owners(j) = {} => clusters[j] = << >>)

\* An update step has run with a centroid that owns nothing, away from the
\* origin, beside a centroid that owns several observations.
C9_Witness ==
    /\ pc \in {"assign", "materialize"}
    /\ iters >= 1
    /\ \E j, j2 \in 0..(k - 1) :
          /\ Owners(j) = {}
          /\ \E d \in 1..dim : centroids[j].c[d] # 0
          /\ Cardinality(Owners(j2)) >= 2

\* C10: the loop stops after the first iteration whose maximum centroid
\* movement is strictly below deltaThreshold (every centroid moved by less),
\* and otherwise goes on until iterationThreshold iterations are done; the
\* clusters returned follow the assignment of the last iteration; an iteration
\* that moves no centroid stops the loop.
C10_Stopping ==
    /\ [][UpdateDone =>
            /\ (pc' = "materialize") <=>
                  \/ \A j \in 0..(k - 1) :
                        BelowDelta(euclideanDistance(centroids[j], centroids'[j]))
                  \/ iters = iterationThreshold
            /\ (\A j \in 0..(k - 1) : SamePosition(centroids[j], centroids'[j]))
                  => pc' = "materialize"
         ]_vars
    /\ [][(pc = "update" \/ pc = "materialize") => assignment' = assignment]_vars
    /\ []((pc = "returned" /\ NonDegenerate) =>
            \A i \in 0..(n - 1) :
                /\ assignment[i] \in DOMAIN clusters
                /\ i \in Members(assignment[i]))

\* An iteration whose maximum movement equals deltaThreshold was followed by
\* another iteration.
C10_Witness ==
    /\ pc = "update"
    /\ iters >= 2
    /\ ~maxMovement.inf
    /\ maxMovement.n * deltaThreshold.d * deltaThreshold.d
         = deltaThreshold.n * deltaThreshold.n * maxMovement.d
====
